---- MODULE Spec2Model ----
(***************************************************************************)
(* The decode-and-reconcile model of owrcare/models.py: Device.from_dict   *)
(* builds the typed tree from a full snapshot, Device.update_from_dict     *)
(* merges a partial document into it.                                      *)
(*                                                                         *)
(* A JSON object is a function from its keys to its values; a JSON array   *)
(* is a sequence.  Python's None in an integer slot is the value None      *)
(* (below every JSON number of the model), in a string slot NoneStr.  A    *)
(* Python object is the function from its attribute names to their values, *)
(* so that setting an attribute the class does not declare widens its      *)
(* domain.                                                                 *)
(***************************************************************************)
EXTENDS Integers, Sequences, FiniteSets, TLC

VARIABLES dev, before, doc, err, op

vars == <<dev, before, doc, err, op>>

None == -1
NoneStr == "None"
NoErr == "none"

\* ------------------------------------------------------------ enumerations

BodyRange == 0..1
BodyPresence == 0..1
BodyMovement == 0..2
BreathInfo == 0..4
SleepAway == 0..2
SleepStatus == 0..3
SleepException == 0..3
SleepRating == 0..3
SleepStruggle == 0..2
SleepNobody == 0..2
SettingSwitch == 0..1

\* ------------------------------------------------------------ dict access

\* data.get(key) of an integer-valued key
Get(data, key) == IF key \in DOMAIN data THEN data[key] ELSE None

\* data.get(key, None) of a string-valued key
GetStr(data, key) == IF key \in DOMAIN data THEN data[key] ELSE NoneStr

\* Enum(value): ValueError unless value is a member (None is none)
EnumErr(Enum, value) == IF value \in Enum THEN NoErr ELSE "ValueError"

\* the first exception raised among the keyword arguments, in order
FirstErr(errs) ==
  IF \A i \in 1..Len(errs) : errs[i] = NoErr THEN NoErr
  ELSE errs[CHOOSE i \in 1..Len(errs) :
              errs[i] # NoErr /\ \A j \in 1..(i - 1) : errs[j] = NoErr]

\* Child.from_dict(data.get(key)), `child` being Child.from_dict(data[key]):
\* without the key, None.get raises AttributeError
Sub(data, key, child) ==
  IF key \in DOMAIN data THEN child
  ELSE [err |-> "AttributeError", val |-> None]

\* ------------------------------------------------------------ from_dict

BodyLocation_from_dict(data) ==
  [err |-> NoErr,
   val |-> [x |-> Get(data, "x"), y |-> Get(data, "y"), z |-> Get(data, "z")]]

Body_from_dict(data) ==
  LET location == Sub(data, "location", BodyLocation_from_dict(data["location"]))
  IN  [err |-> FirstErr(<<EnumErr(BodyRange, Get(data, "range")),
                          EnumErr(BodyPresence, Get(data, "presence")),
                          EnumErr(BodyMovement, Get(data, "movement")),
                          location.err>>),
       val |-> [range |-> Get(data, "range"),
                presence |-> Get(data, "presence"),
                energy |-> Get(data, "energy"),
                movement |-> Get(data, "movement"),
                distance |-> Get(data, "distance"),
                location |-> location.val]]

Wave_from_dict(data) ==
  [err |-> NoErr,
   val |-> [w0 |-> Get(data, "w0"), w1 |-> Get(data, "w1"),
            w2 |-> Get(data, "w2"), w3 |-> Get(data, "w3"),
            w4 |-> Get(data, "w4")]]

Heart_from_dict(data) ==
  LET waves == Sub(data, "waves", Wave_from_dict(data["waves"]))
  IN  [err |-> waves.err,
       val |-> [rate |-> Get(data, "rate"), waves |-> waves.val]]

Breath_from_dict(data) ==
  LET waves == Sub(data, "waves", Wave_from_dict(data["waves"]))
  IN  [err |-> FirstErr(<<EnumErr(BreathInfo, Get(data, "info")), waves.err>>),
       val |-> [info |-> Get(data, "info"),
                rate |-> Get(data, "rate"),
                waves |-> waves.val]]

SleepOverview_from_dict(data) ==
  [err |-> FirstErr(<<EnumErr(BodyPresence, Get(data, "presence")),
                      EnumErr(SleepStatus, Get(data, "status"))>>),
   val |-> [presence |-> Get(data, "presence"),
            status |-> Get(data, "status"),
            breath |-> Get(data, "breath"),
            heart |-> Get(data, "heart"),
            turn |-> Get(data, "turn"),
            leratio |-> Get(data, "leratio"),
            seratio |-> Get(data, "seratio"),
            pause |-> Get(data, "pause")]]

SleepQuality_from_dict(data) ==
  [err |-> NoErr,
   val |-> [score |-> Get(data, "score"),
            duration |-> Get(data, "duration"),
            awake |-> Get(data, "awake"),
            light |-> Get(data, "light"),
            deep |-> Get(data, "deep"),
            aduration |-> Get(data, "aduration"),
            away |-> Get(data, "away"),
            turn |-> Get(data, "turn"),
            breath |-> Get(data, "breath"),
            heart |-> Get(data, "heart"),
            pause |-> Get(data, "pause")]]

\* away and status are stored as received; the last four codes are validated
Sleep_from_dict(data) ==
  LET overview == Sub(data, "overview", SleepOverview_from_dict(data["overview"]))
      quality == Sub(data, "quality", SleepQuality_from_dict(data["quality"]))
  IN  [err |-> FirstErr(<<overview.err, quality.err,
                          EnumErr(SleepException, Get(data, "exception")),
                          EnumErr(SleepRating, Get(data, "rating")),
                          EnumErr(SleepStruggle, Get(data, "struggle")),
                          EnumErr(SleepNobody, Get(data, "nobody"))>>),
       val |-> [away |-> Get(data, "away"),
                status |-> Get(data, "status"),
                awake |-> Get(data, "awake"),
                light |-> Get(data, "light"),
                deep |-> Get(data, "deep"),
                score |-> Get(data, "score"),
                overview |-> overview.val,
                quality |-> quality.val,
                exception |-> Get(data, "exception"),
                rating |-> Get(data, "rating"),
                struggle |-> Get(data, "struggle"),
                nobody |-> Get(data, "nobody")]]

State_from_dict(data) ==
  LET body == Sub(data, "body", Body_from_dict(data["body"]))
      heart == Sub(data, "heart", Heart_from_dict(data["heart"]))
      breath == Sub(data, "breath", Breath_from_dict(data["breath"]))
      sleep == Sub(data, "sleep", Sleep_from_dict(data["sleep"]))
  IN  [err |-> FirstErr(<<body.err, heart.err, breath.err, sleep.err>>),
       val |-> [timestamp |-> Get(data, "timestamp"),
                body |-> body.val,
                heart |-> heart.val,
                breath |-> breath.val,
                sleep |-> sleep.val]]

Info_from_dict(data) ==
  [err |-> NoErr,
   val |-> [model |-> GetStr(data, "model"),
            id |-> GetStr(data, "id"),
            hardware |-> GetStr(data, "hardware"),
            firmware |-> GetStr(data, "firmware"),
            version |-> GetStr(data, "version"),
            free_heap |-> Get(data, "free_heap"),
            ip |-> GetStr(data, "ip"),
            mac_addr |-> GetStr(data, "mac_addr"),
            name |-> GetStr(data, "name")]]

\* every switch is stored as received
Setting_from_dict(data) ==
  [err |-> NoErr,
   val |-> [binding_count |-> Get(data, "binding_count"),
            binding |-> Get(data, "binding"),
            realtime_ws |-> Get(data, "realtime_ws"),
            realtime_mq |-> Get(data, "realtime_mq"),
            body |-> Get(data, "body"),
            heart |-> Get(data, "heart"),
            breath |-> Get(data, "breath"),
            sleep |-> Get(data, "sleep"),
            mode |-> Get(data, "mode"),
            nobody |-> Get(data, "nobody"),
            nobody_duration |-> Get(data, "nobody_duration"),
            struggle |-> Get(data, "struggle"),
            stop_duration |-> Get(data, "stop_duration")]]

\* the last element in place of the first
LastState(states) == states[Len(states)]

\* data.get("states")[0]: the element the decoder and the reconciler read
FirstState(states) == states[1]

\* State.from_dict(data.get("states")[0]): None[0] raises TypeError, [][0]
\* raises IndexError
States_from_dict(data) ==
  IF "states" \notin DOMAIN data THEN [err |-> "TypeError", val |-> None]
  ELSE IF Len(data["states"]) = 0 THEN [err |-> "IndexError", val |-> None]
  ELSE State_from_dict(FirstState(data["states"]))

Device_from_dict(data) ==
  LET setting == Sub(data, "setting", Setting_from_dict(data["setting"]))
      info == Sub(data, "info", Info_from_dict(data["info"]))
      state == States_from_dict(data)
  IN  [err |-> FirstErr(<<setting.err, info.err, state.err>>),
       val |-> [setting |-> setting.val, info |-> info.val, state |-> state.val]]

\* ------------------------------------------------------------ update_from_dict

\* Truthy with a presence test in place of the truthiness test
Truthy_present(data, key) == key \in DOMAIN data

\* `if _v := data.get(key)` on a number: absent (None) and 0 are falsy
Truthy(data, key) == key \in DOMAIN data /\ data[key] # 0

\* `if _v := data.get(key)` on a string: absent (None) and "" are falsy
TruthyStr(data, key) == key \in DOMAIN data /\ data[key] # ""

\* `if _v := data.get(key)` on an object: absent (None) and {} are falsy
TruthyObj(data, key) == key \in DOMAIN data /\ DOMAIN data[key] # {}

\* `if _v := data.get(key)` on an array: absent (None) and [] are falsy
TruthyList(data, key) == key \in DOMAIN data /\ Len(data[key]) > 0

\* self.attr = value
SetAttr(self, attr, value) ==
  [a \in DOMAIN self \cup {attr} |-> IF a = attr THEN value ELSE self[a]]

\* An update_from_dict in progress: the object as mutated so far, and the
\* exception that ended it (NoErr while it runs).
Begin(self) == [obj |-> self, err |-> NoErr]

\* Assign without the test: self.key = data.get(key)
Assign_unconditional(c, data, key) ==
  IF c.err # NoErr THEN c
  ELSE [c EXCEPT !.obj = SetAttr(c.obj, key, Get(data, key))]

\* Assign that adds to the field: self.key += _v
Assign_accumulate(c, data, key) ==
  IF c.err # NoErr \/ ~(key \in DOMAIN data /\ data[key] # 0) THEN c
  ELSE [c EXCEPT !.obj = SetAttr(c.obj, key, c.obj[key] + data[key])]

\* if _v := data.get(key): self.key = _v
Assign(c, data, key) ==
  IF c.err # NoErr \/ ~Truthy(data, key) THEN c
  ELSE [c EXCEPT !.obj = SetAttr(c.obj, key, data[key])]

\* if _v := data.get(key): self.attr = _v      (a string)
AssignStr(c, data, key, attr) ==
  IF c.err # NoErr \/ ~TruthyStr(data, key) THEN c
  ELSE [c EXCEPT !.obj = SetAttr(c.obj, attr, data[key])]

\* if _v := data.get(key): self.key = Enum(_v)
AssignEnum(c, data, key, Enum) ==
  IF c.err # NoErr \/ ~Truthy(data, key) THEN c
  ELSE IF EnumErr(Enum, data[key]) # NoErr
       THEN [c EXCEPT !.err = EnumErr(Enum, data[key])]
       ELSE [c EXCEPT !.obj = SetAttr(c.obj, key, data[key])]

\* if _v := data.get(key): self.key = Child.from_dict(_v), `child` being
\* Child.from_dict(data[key])
AssignSub(c, data, key, child) ==
  IF c.err # NoErr \/ ~TruthyObj(data, key) THEN c
  ELSE IF child.err # NoErr THEN [c EXCEPT !.err = child.err]
       ELSE [c EXCEPT !.obj = SetAttr(c.obj, key, child.val)]

\* if _v := data.get(key): self.attr.update_from_dict(_v)
\* The child is mutated in place: what it had applied when it raised stays.
MergeSub(c, attr, child) ==
  [obj |-> SetAttr(c.obj, attr, child.obj), err |-> child.err]

Body_update_from_dict(self, data) ==
  LET c1 == AssignEnum(Begin(self), data, "range", BodyRange)
      c2 == AssignEnum(c1, data, "presence", BodyPresence)
      c3 == Assign(c2, data, "energy")
      c4 == AssignEnum(c3, data, "movement", BodyMovement)
      c5 == Assign(c4, data, "distance")
  IN  AssignSub(c5, data, "location",
                BodyLocation_from_dict(data["location"]))

Heart_update_from_dict(self, data) ==
  LET c1 == Assign(Begin(self), data, "rate")
  IN  AssignSub(c1, data, "waves",
                Wave_from_dict(data["waves"]))

Breath_update_from_dict(self, data) ==
  LET c1 == AssignEnum(Begin(self), data, "info", BreathInfo)
      c2 == Assign(c1, data, "rate")
  IN  AssignSub(c2, data, "waves",
                Wave_from_dict(data["waves"]))

\* status is stored as received
Sleep_update_from_dict(self, data) ==
  LET c1 == AssignEnum(Begin(self), data, "away", SleepAway)
      c2 == Assign(c1, data, "status")
      c3 == Assign(c2, data, "awake")
      c4 == Assign(c3, data, "light")
      c5 == Assign(c4, data, "deep")
      c6 == Assign(c5, data, "score")
      c7 == AssignSub(c6, data, "overview",
                SleepOverview_from_dict(data["overview"]))
      c8 == AssignSub(c7, data, "quality",
                SleepQuality_from_dict(data["quality"]))
      c9 == AssignEnum(c8, data, "exception", SleepException)
      c10 == AssignEnum(c9, data, "rating", SleepRating)
      c11 == AssignEnum(c10, data, "struggle", SleepStruggle)
  IN  AssignEnum(c11, data, "nobody", SleepNobody)

State_update_body(c, data) ==
  IF c.err # NoErr \/ ~TruthyObj(data, "body") THEN c
  ELSE MergeSub(c, "body", Body_update_from_dict(c.obj["body"], data["body"]))

State_update_breath(c, data) ==
  IF c.err # NoErr \/ ~TruthyObj(data, "breath") THEN c
  ELSE MergeSub(c, "breath",
                Breath_update_from_dict(c.obj["breath"], data["breath"]))

\* State.update_from_dict without its heart branch
State_update_heart_skipped(c, data) == c

State_update_heart(c, data) ==
  IF c.err # NoErr \/ ~TruthyObj(data, "heart") THEN c
  ELSE MergeSub(c, "heart",
                Heart_update_from_dict(c.obj["heart"], data["heart"]))

State_update_sleep(c, data) ==
  IF c.err # NoErr \/ ~TruthyObj(data, "sleep") THEN c
  ELSE MergeSub(c, "sleep",
                Sleep_update_from_dict(c.obj["sleep"], data["sleep"]))

State_update_from_dict(self, data) ==
  LET c1 == Assign(Begin(self), data, "timestamp")
      c2 == State_update_body(c1, data)
      c3 == State_update_breath(c2, data)
      c4 == State_update_heart(c3, data)
  IN  State_update_sleep(c4, data)

\* the update reads "mac" and sets the attribute mac; mac_addr is not read
Info_update_from_dict(self, data) ==
  LET c1 == AssignStr(Begin(self), data, "model", "model")
      c2 == AssignStr(c1, data, "id", "id")
      c3 == AssignStr(c2, data, "hardware", "hardware")
      c4 == AssignStr(c3, data, "firmware", "firmware")
      c5 == AssignStr(c4, data, "version", "version")
      c6 == Assign(c5, data, "free_heap")
      c7 == AssignStr(c6, data, "ip", "ip")
      c8 == AssignStr(c7, data, "mac", "mac")
  IN  AssignStr(c8, data, "name", "name")

\* every switch is stored as received
Setting_update_from_dict(self, data) ==
  LET c1 == Assign(Begin(self), data, "binding_count")
      c2 == Assign(c1, data, "binding")
      c3 == Assign(c2, data, "realtime_ws")
      c4 == Assign(c3, data, "realtime_mq")
      c5 == Assign(c4, data, "body")
      c6 == Assign(c5, data, "heart")
      c7 == Assign(c6, data, "breath")
      c8 == Assign(c7, data, "sleep")
      c9 == Assign(c8, data, "mode")
      c10 == Assign(c9, data, "nobody")
      c11 == Assign(c10, data, "nobody_duration")
      c12 == Assign(c11, data, "struggle")
  IN  Assign(c12, data, "stop_duration")

Device_update_setting(c, data) ==
  IF c.err # NoErr \/ ~TruthyObj(data, "setting") THEN c
  ELSE MergeSub(c, "setting",
                Setting_update_from_dict(c.obj["setting"], data["setting"]))

Device_update_info(c, data) ==
  IF c.err # NoErr \/ ~TruthyObj(data, "info") THEN c
  ELSE MergeSub(c, "info",
                Info_update_from_dict(c.obj["info"], data["info"]))

Device_update_states(c, data) ==
  IF c.err # NoErr \/ ~TruthyList(data, "states") THEN c
  ELSE MergeSub(c, "state",
                State_update_from_dict(c.obj["state"],
                                       FirstState(data["states"])))

\* Device.update_from_dict as a transaction: a call that raises restores the
\* Device it was given
Device_update_from_dict_transactional(self, data) ==
  LET c1 == Device_update_setting(Begin(self), data)
      c2 == Device_update_info(c1, data)
      c3 == Device_update_states(c2, data)
  IN  IF c3.err = NoErr THEN c3 ELSE [obj |-> self, err |-> c3.err]

Device_update_from_dict(self, data) ==
  LET c1 == Device_update_setting(Begin(self), data)
      c2 == Device_update_info(c1, data)
  IN  Device_update_states(c2, data)

\* ------------------------------------------------------------ documents

\* most leaf paths a partial document carries
MaxKeys == 2
\* most elements of a document's states array
MaxStates == 2

WaveKeys == {"w0", "w1", "w2", "w3", "w4"}
LocationKeys == {"x", "y", "z"}
OverviewKeys ==
  {"presence", "status", "breath", "heart", "turn", "leratio", "seratio", "pause"}
QualityKeys ==
  {"score", "duration", "awake", "light", "deep", "aduration", "away", "turn",
   "breath", "heart", "pause"}
SleepKeys ==
  {"away", "status", "awake", "light", "deep", "score", "exception", "rating",
   "struggle", "nobody"}
BodyKeys == {"range", "presence", "energy", "movement", "distance"}
SettingKeys ==
  {"binding_count", "binding", "realtime_ws", "realtime_mq", "body", "heart",
   "breath", "sleep", "mode", "nobody", "nobody_duration", "struggle",
   "stop_duration"}
SwitchKeys == SettingKeys \ {"binding_count", "nobody_duration", "stop_duration"}
InfoStrKeys ==
  {"model", "id", "hardware", "firmware", "version", "ip", "mac_addr", "name"}

\* The leaf paths of a state document (one element of states).
StatePaths ==
  {<<"states", "timestamp">>, <<"states", "heart", "rate">>,
   <<"states", "breath", "info">>, <<"states", "breath", "rate">>}
    \cup {<<"states", "body", k>> : k \in BodyKeys}
    \cup {<<"states", "body", "location", k>> : k \in LocationKeys}
    \cup {<<"states", "heart", "waves", k>> : k \in WaveKeys}
    \cup {<<"states", "breath", "waves", k>> : k \in WaveKeys}
    \cup {<<"states", "sleep", k>> : k \in SleepKeys}
    \cup {<<"states", "sleep", "overview", k>> : k \in OverviewKeys}
    \cup {<<"states", "sleep", "quality", k>> : k \in QualityKeys}

\* The leaf paths of a full snapshot.
SnapshotPaths ==
  StatePaths
    \cup {<<"setting", k>> : k \in SettingKeys}
    \cup {<<"info", k>> : k \in InfoStrKeys \cup {"free_heap"}}

\* The leaf paths of a partial document: the device also sends info.mac.
UpdatePaths == SnapshotPaths \cup {<<"info", "mac">>}

StrPaths == {<<"info", k>> : k \in InfoStrKeys \cup {"mac"}}

\* The paths of the enum-coded fields, with the closed set of each.
CodeSet(p) ==
  CASE p = <<"states", "body", "range">> -> BodyRange
    [] p = <<"states", "body", "presence">> -> BodyPresence
    [] p = <<"states", "body", "movement">> -> BodyMovement
    [] p = <<"states", "breath", "info">> -> BreathInfo
    [] p = <<"states", "sleep", "away">> -> SleepAway
    [] p = <<"states", "sleep", "status">> -> SleepStatus
    [] p = <<"states", "sleep", "exception">> -> SleepException
    [] p = <<"states", "sleep", "rating">> -> SleepRating
    [] p = <<"states", "sleep", "struggle">> -> SleepStruggle
    [] p = <<"states", "sleep", "nobody">> -> SleepNobody
    [] p = <<"states", "sleep", "overview", "presence">> -> BodyPresence
    [] p = <<"states", "sleep", "overview", "status">> -> SleepStatus
    [] p \in {<<"setting", k>> : k \in SwitchKeys} -> SettingSwitch

CodePaths ==
  {<<"states", "body", "range">>, <<"states", "body", "presence">>,
   <<"states", "body", "movement">>, <<"states", "breath", "info">>,
   <<"states", "sleep", "overview", "presence">>,
   <<"states", "sleep", "overview", "status">>}
    \cup {<<"states", "sleep", k>> :
            k \in {"away", "status", "exception", "rating", "struggle", "nobody"}}
    \cup {<<"setting", k>> : k \in SwitchKeys}

\* a code outside every closed set
BadCode == 9

\* The values a document gives a path: a code is 0, a non-zero member, a
\* second one where the set has it, or out of range; a number is 0 or not.
PathVals(p) ==
  IF p \in StrPaths THEN {"", "owr"}
  ELSE IF p \in CodePaths THEN {0, 1, 2, BadCode}
  ELSE {0, 65}

IsPrefix(s, t) == Len(s) <= Len(t) /\ SubSeq(t, 1, Len(s)) = s

\* The JSON object under `prefix` of the document that gives each path of
\* DOMAIN a the value a[path].
RECURSIVE Build(_, _)
Build(a, prefix) ==
  LET under == {p \in DOMAIN a : IsPrefix(prefix, p) /\ Len(p) > Len(prefix)}
      keys == {p[Len(prefix) + 1] : p \in under}
  IN  [k \in keys |->
         IF Append(prefix, k) \in DOMAIN a THEN a[Append(prefix, k)]
         ELSE Build(a, Append(prefix, k))]

\* An older state, as the device lists it after the latest one.
StaleState == [timestamp |-> 100, body |-> [range |-> BadCode, energy |-> 7],
               heart |-> [rate |-> 7]]

\* The document of the assignment a, its states array (when it has one) of n
\* elements: the state of a first, older states after it.
MakeDoc(a, n) ==
  LET d == Build(a, <<>>)
  IN  IF "states" \in DOMAIN d
      THEN [d EXCEPT !["states"] = <<d["states"]>> \o [i \in 1..(n - 1) |-> StaleState]]
      ELSE d

\* The codes an update_from_dict converts to their enum: the leaves whose
\* value can end the call with ValueError.
ValidatedPaths ==
  {<<"states", "body", k>> : k \in {"range", "presence", "movement"}}
    \cup {<<"states", "breath", "info">>}
    \cup {<<"states", "sleep", k>> :
            k \in {"away", "exception", "rating", "struggle", "nobody"}}

\* The assignment a with path p given value v.
With(a, p, v) == [q \in DOMAIN a \cup {p} |-> IF q = p THEN v ELSE a[q]]

\* The assignments of at most n paths: none, or one leaf of any path with any
\* of its values, and with it up to n - 1 validated codes, each accepted (1)
\* or rejected (BadCode).
RECURSIVE Assignments(_)
Assignments(n) ==
  IF n = 0 THEN {<<>>}
  ELSE IF n = 1
       THEN {<<>>} \cup UNION {{With(<<>>, p, v) : v \in PathVals(p)} :
                                 p \in UpdatePaths}
       ELSE LET less == Assignments(n - 1)
            IN  less \cup UNION {{With(a, p, v) : v \in {1, BadCode}} :
                                   a \in less \ {<<>>},
                                   p \in ValidatedPaths}

\* The partial documents the device sends.
Updates == {MakeDoc(a, n) : a \in Assignments(MaxKeys), n \in 1..MaxStates}

\* The value a complete snapshot gives a path: numbers `number`, codes `code`.
SnapshotValue(p, number, code, string) ==
  IF p \in StrPaths THEN string ELSE IF p \in CodePaths THEN code ELSE number

\* Complete, valid snapshots: one with every code 0, one with every code 1.
SnapshotAssignments ==
  {[p \in SnapshotPaths |-> SnapshotValue(p, 72, 0, "a")],
   [p \in SnapshotPaths |-> SnapshotValue(p, 40, 1, "b")]}

Snapshots == {MakeDoc(a, n) : a \in SnapshotAssignments, n \in 1..MaxStates}

\* ------------------------------------------------------------ the program

NoDevice == [none |-> TRUE]
NoDoc == [none |-> TRUE]

Init ==
  /\ dev = NoDevice
  /\ before = NoDevice
  /\ doc = NoDoc
  /\ err = NoErr
  /\ op = "none"

\* One Device lives through one session: it is decoded from the first
\* response, the next response is merged into it, and the same response may be
\* merged again.

\* device = Device.from_dict(data): the first full response
Decode ==
  /\ op = "none"
  /\ \E data \in Snapshots :
       /\ \E r \in {Device_from_dict(data)} :
            /\ dev' = IF r.err = NoErr THEN r.val ELSE NoDevice
            /\ err' = r.err
       /\ doc' = data
  /\ op' = "decode"
  /\ UNCHANGED before

\* device.update_from_dict(data): the response after the first
Merge ==
  /\ op = "decode"
  /\ dev # NoDevice
  /\ \E data \in Updates :
       /\ \E r \in {Device_update_from_dict(dev, data)} :
            /\ dev' = r.obj
            /\ err' = r.err
       /\ doc' = data
  /\ before' = dev
  /\ op' = "merge"

\* device.update_from_dict(data) again, with the document just merged
Remerge ==
  /\ op = "merge"
  /\ \E r \in {Device_update_from_dict(dev, doc)} :
       /\ dev' = r.obj
       /\ err' = r.err
  /\ op' = "remerge"
  /\ UNCHANGED <<before, doc>>

Next ==
  \/ Decode
  \/ Merge
  \/ Remerge

Spec == Init /\ [][Next]_vars

\* ------------------------------------------------------------ first responses

\* most defects of a first response
MaxDefects == 1

\* The keys of the nested objects of a snapshot, as paths.
ObjectPaths ==
  UNION {{SubSeq(p, 1, n) : n \in 1..(Len(p) - 1)} : p \in SnapshotPaths}

\* The assignment a without the paths under `prefix` (a key left out).
Without(a, prefix) == [p \in {q \in DOMAIN a : ~IsPrefix(prefix, q)} |-> a[p]]

\* The snapshot assignments with at most n defects: a leaf or an object left
\* out, or a code out of range.
RECURSIVE Defective(_)
Defective(n) ==
  IF n = 0 THEN SnapshotAssignments
  ELSE LET less == Defective(n - 1)
       IN  less
             \cup {Without(a, q) : a \in less, q \in SnapshotPaths \cup ObjectPaths}
             \cup {[q \in DOMAIN a |-> IF q = p THEN BadCode ELSE a[q]] :
                     a \in less, p \in CodePaths}

\* What the device may answer first: a snapshot with some defects, or one
\* whose states array is empty.
FirstResponses(defects) ==
  {MakeDoc(a, n) : a \in Defective(defects), n \in 1..MaxStates}
    \cup {[MakeDoc(a, 1) EXCEPT !["states"] = <<>>] : a \in SnapshotAssignments}

\* device = Device.from_dict(data), on whatever the device answers first
DecodeAny ==
  /\ op = "none"
  /\ \E data \in FirstResponses(MaxDefects) :
       /\ \E r \in {Device_from_dict(data)} :
            /\ dev' = IF r.err = NoErr THEN r.val ELSE NoDevice
            /\ err' = r.err
       /\ doc' = data
  /\ op' = "decode"
  /\ UNCHANGED before

NextDecode == DecodeAny

SpecDecode == Init /\ [][NextDecode]_vars

\* ------------------------------------------------------------ reading the tree

RECURSIVE At(_, _)
At(obj, path) == IF path = <<>> THEN obj ELSE At(obj[Head(path)], Tail(path))

RECURSIVE Has(_, _)
Has(obj, path) ==
  path = <<>> \/ (Head(path) \in DOMAIN obj /\ Has(obj[Head(path)], Tail(path)))

\* The field of Device d that the document path p is decoded or merged into:
\* the first element of states is Device.state.
DevAt(d, p) == At(d, IF Head(p) = "states" THEN <<"state">> \o Tail(p) ELSE p)

\* The state document a merge or a decode reads from document d.
HasStates(d) == "states" \in DOMAIN d /\ Len(d["states"]) > 0

\* Whether document d carries path p, and the value it gives it.
DocHas(d, p) ==
  IF Head(p) = "states" THEN HasStates(d) /\ Has(d["states"][1], Tail(p))
  ELSE Has(d, p)

DocAt(d, p) ==
  IF Head(p) = "states" THEN At(d["states"][1], Tail(p)) ELSE At(d, p)

\* The nested objects an update_from_dict replaces by a from_dict.
SubObjects ==
  {<<"states", "body", "location">>, <<"states", "heart", "waves">>,
   <<"states", "breath", "waves">>, <<"states", "sleep", "overview">>,
   <<"states", "sleep", "quality">>}

\* The leaves of those nested objects.
SubObjectPaths ==
  {p \in SnapshotPaths : \E o \in SubObjects : IsPrefix(o, p)}

\* The fields of the records that have an update_from_dict (Device, State,
\* Body, Heart, Breath, Sleep, Info, Setting), nested objects included.
MergedFields == (SnapshotPaths \cup ObjectPaths) \ SubObjectPaths

\* Their integer and enum-coded leaves.
MergedNumbers == (SnapshotPaths \ SubObjectPaths) \ StrPaths

\* The enum codes the reconciler validates before the heart branch of
\* State.update_from_dict.
CodesBeforeHeart ==
  {<<"states", "body", "range">>, <<"states", "body", "presence">>,
   <<"states", "body", "movement">>, <<"states", "breath", "info">>}

HeartRate == <<"states", "heart", "rate">>

\* ------------------------------------------------------------ claims

\* C1: when the merge of one nested object (Body, Breath, Sleep) fails on an
\* out-of-range code, none of that object's fields is changed.
C1_AtomicPerObject ==
  (op = "merge" /\ HasStates(doc)) =>
    LET data == doc["states"][1]
    IN  /\ (TruthyObj(data, "body")
              /\ Body_update_from_dict(before.state.body, data["body"]).err # NoErr)
             => dev.state.body = before.state.body
        /\ (TruthyObj(data, "breath")
              /\ Breath_update_from_dict(before.state.breath, data["breath"]).err # NoErr)
             => dev.state.breath = before.state.breath
        /\ (TruthyObj(data, "sleep")
              /\ Sleep_update_from_dict(before.state.sleep, data["sleep"]).err # NoErr)
             => dev.state.sleep = before.state.sleep

\* C2: whenever a Device exists, after its decode and after every merge, each
\* enum-coded field holds a member of its closed set.
C2_ValidState ==
  dev # NoDevice => \A p \in CodePaths : DevAt(dev, p) \in CodeSet(p)

\* C3: an integer or enum-coded field of a record with an update_from_dict that
\* the partial update carries with value 0 keeps its previous value.
C3_ZeroSuppressed ==
  op = "merge" =>
    \A p \in MergedNumbers :
      (DocHas(doc, p) /\ DocAt(doc, p) = 0) => DevAt(dev, p) = DevAt(before, p)

\* heart.rate 0 merged onto heart.rate 72 together with another field: the
\* other field is written, heart.rate stays 72
C3_Witness ==
  /\ op = "merge"
  /\ DocHas(doc, HeartRate) /\ DocAt(doc, HeartRate) = 0
  /\ before.state.heart.rate = 72
  /\ dev.state.heart.rate = 72
  /\ dev # before

\* C4: a field of a record with an update_from_dict whose key the partial update
\* does not carry has the same value after the merge as before it.
C4_AbsentUntouched ==
  op = "merge" =>
    \A p \in MergedFields : ~DocHas(doc, p) => DevAt(dev, p) = DevAt(before, p)

\* {"states": [{"body": {"energy": 65}}]} merged: energy is written
C4_Witness ==
  /\ op = "merge"
  /\ doc = [states |-> <<[body |-> [energy |-> 65]]>>]
  /\ before.state.body.energy = 72
  /\ dev.state.body.energy = 65

\* C5, as claimed: a partial update that carries heart.rate with a non-zero
\* value sets heart.rate to that value.
C5_NonZeroOverwrite ==
  (op = "merge" /\ DocHas(doc, HeartRate) /\ DocAt(doc, HeartRate) # 0)
    => dev.state.heart.rate = DocAt(doc, HeartRate)

\* C5, amended: a partial update that carries heart.rate with a non-zero value
\* sets heart.rate to that value, unless it also carries an out-of-range code
\* for a body or breath field, which are merged before heart and end the call.
C5_NonZeroOverwriteReached ==
  (/\ op = "merge"
   /\ DocHas(doc, HeartRate) /\ DocAt(doc, HeartRate) # 0
   /\ \A p \in CodesBeforeHeart :
        DocHas(doc, p) => DocAt(doc, p) \in CodeSet(p))
    => dev.state.heart.rate = DocAt(doc, HeartRate)

\* {"states": [{"heart": {"rate": 65}}]} merged onto heart.rate 72
C5_Witness ==
  /\ op = "merge"
  /\ doc = [states |-> <<[heart |-> [rate |-> 65]]>>]
  /\ before.state.heart.rate = 72
  /\ dev.state.heart.rate = 65

\* C6: merging the document just merged a second time leaves the Device as
\* the first merge left it.
C6_Idempotent == [][op' = "remerge" => dev' = dev]_vars

\* a document that changed the Device has been merged twice
C6_Witness == op = "remerge" /\ dev # before /\ err = NoErr

\* C7: a decode that succeeds stores no out-of-range code, and a first response
\* with an out-of-range code in an enum-coded field is rejected.
C7_DecodeRejectsBadCode ==
  op = "decode" =>
    /\ err = NoErr =>
         \A p \in CodePaths : DocHas(doc, p) => DevAt(dev, p) \in CodeSet(p)
    /\ (\E p \in CodePaths : DocHas(doc, p) /\ DocAt(doc, p) \notin CodeSet(p))
         => err # NoErr

\* C8: a first response that lacks a required field is rejected, and a decode
\* that succeeds leaves no field unset.
C8_DecodeRejectsMissing ==
  op = "decode" =>
    /\ (\E p \in SnapshotPaths : ~DocHas(doc, p)) => err # NoErr
    /\ err = NoErr =>
         \A p \in SnapshotPaths :
           DevAt(dev, p) # (IF p \in StrPaths THEN NoneStr ELSE None)

\* The document d with its states array cut to the first element.
FirstOnly(d) ==
  IF HasStates(d) THEN [d EXCEPT !["states"] = <<d["states"][1]>>] ELSE d

\* C9: a decode and a merge give what they give on the same document with the
\* states elements after the first removed.
C9_FirstStateOnly ==
  /\ op = "decode" =>
       /\ err = Device_from_dict(FirstOnly(doc)).err
       /\ err = NoErr => dev = Device_from_dict(FirstOnly(doc)).val
  /\ op = "merge" =>
       /\ dev = Device_update_from_dict(before, FirstOnly(doc)).obj
       /\ err = Device_update_from_dict(before, FirstOnly(doc)).err

\* a states array of two elements merged: the timestamp is the first one's
C9_Witness ==
  /\ op = "merge"
  /\ HasStates(doc) /\ Len(doc["states"]) >= 2
  /\ doc["states"][2] = StaleState
  /\ DocHas(doc, <<"states", "timestamp">>)
  /\ DocAt(doc, <<"states", "timestamp">>) = 65
  /\ dev.state.timestamp = 65
  /\ before.state.timestamp = 72

\* C10: a field of a nested sub-object (location, waves, overview, quality)
\* that the partial update does not carry keeps its previous value.
C10_SubObjectsMerged ==
  op = "merge" =>
    \A p \in SubObjectPaths : ~DocHas(doc, p) => DevAt(dev, p) = DevAt(before, p)

\* The objects of a document in the order one call merges them:
\* Device.update_from_dict takes setting, info, states[0], and
\* State.update_from_dict takes body, breath, heart, sleep.
MergeOrder ==
  <<<<"setting">>, <<"info">>, <<"states", "body">>, <<"states", "breath">>,
    <<"states", "heart">>, <<"states", "sleep">>>>

\* self.update_from_dict(data) of the object at path p
ObjectMerge(p, self, data) ==
  CASE p = <<"setting">> -> Setting_update_from_dict(self, data)
    [] p = <<"info">> -> Info_update_from_dict(self, data)
    [] p = <<"states", "body">> -> Body_update_from_dict(self, data)
    [] p = <<"states", "breath">> -> Breath_update_from_dict(self, data)
    [] p = <<"states", "heart">> -> Heart_update_from_dict(self, data)
    [] p = <<"states", "sleep">> -> Sleep_update_from_dict(self, data)

\* Whether document d carries the object at path p with a key in it.
Carries(d, p) == DocHas(d, p) /\ DOMAIN DocAt(d, p) # {}

\* The object at path p of Device d after the merge of its part of document
\* data, on its own, and the exception that merge raises.
MergedAlone(d, data, p) ==
  IF Carries(data, p) THEN ObjectMerge(p, DevAt(d, p), DocAt(data, p))
  ELSE Begin(DevAt(d, p))

\* The i-th object is the one whose merge ends the call.
Failing(d, data, i) ==
  /\ MergedAlone(d, data, MergeOrder[i]).err # NoErr
  /\ \A j \in 1..(i - 1) : MergedAlone(d, data, MergeOrder[j]).err = NoErr

\* C11: when the merge of an object fails on an invalid code, the call raises,
\* each object merged before it (setting, info, body, breath, heart, sleep in
\* that order) holds what its own merge gave it, and each object after it is
\* as it was before the call.
C11_PerObjectNotTransactional ==
  op = "merge" =>
    \A i \in 1..Len(MergeOrder) :
      Failing(before, doc, i) =>
        /\ err = "ValueError"
        /\ \A j \in 1..(i - 1) :
             DevAt(dev, MergeOrder[j]) = MergedAlone(before, doc, MergeOrder[j]).obj
        /\ \A j \in (i + 1)..Len(MergeOrder) :
             DevAt(dev, MergeOrder[j]) = DevAt(before, MergeOrder[j])

\* a body field and an out-of-range breath.info in one update: breath ends the
\* call, the body field is written
C11_Witness ==
  /\ op = "merge"
  /\ err = "ValueError"
  /\ Failing(before, doc, 4)
  /\ Carries(doc, <<"states", "body">>)
  /\ dev.state.body # before.state.body
  /\ dev.state.body = Body_update_from_dict(before.state.body, doc["states"][1]["body"]).obj

\* The fields Info.from_dict reads.
InfoKeys == InfoStrKeys \cup {"free_heap"}

\* C12: an info update that carries a non-empty (non-zero) value under the key
\* of a decoded Info field sets that field to the value, and the merge leaves
\* the record's field set as construction made it.
C12_InfoMergeCovers ==
  op = "merge" =>
    /\ \A k \in InfoKeys :
         (/\ DocHas(doc, <<"info", k>>)
          /\ DocAt(doc, <<"info", k>>) # (IF k = "free_heap" THEN 0 ELSE ""))
           => dev.info[k] = DocAt(doc, <<"info", k>>)
    /\ DOMAIN dev.info = DOMAIN before.info

====
